---- MODULE Spec2Model ----
(***************************************************************************)
(* Model of setup_modules/progress_tracker.py: the ProgressTracker object  *)
(* (one in-memory StageStatus record per stage), the progress file         *)
(* setup_progress.json it loads at construction and rewrites after every   *)
(* transition, and the processes that are killed and started again on the  *)
(* same setup directory; and of setup_modules/config_resolver.py: the      *)
(* ConfigResolver object, whose resolve_variables expands ~ and then        *)
(* substitutes ${path} references pass by pass.                            *)
(***************************************************************************)
EXTENDS Integers, Sequences, FiniteSets, TLC

VARIABLES
    progress_data,   \* self.progress_data: stage name -> StageStatus
    metadata_file,   \* content of setup_dir / "setup_progress.json"
    config_data,     \* self.config_data
    clock,           \* last value returned by time.time()
    proc,            \* "running" | "raised" (constructor raised) | "killed"
                     \* (died inside _save_progress)
    lastCall,        \* the last operation, its argument and its outcome
    calls,           \* number of operations performed so far
    self_config,     \* ConfigResolver.config: the tree given to __init__
    obj,             \* the tree resolve_variables is working on
    iteration,       \* substitution passes made by _resolve_variable_references
    rpc,             \* position inside resolve_variables
    warned,          \* the "Could not resolve all variables" warning was printed
    first_result     \* what the previous resolver returned (None for the first)

tvars == << progress_data, metadata_file, config_data, clock, proc, lastCall, calls >>

rvars == << self_config, obj, iteration, rpc, warned, first_result >>

vars == << tvars, rvars >>

----------------------------------------------------------------------------
(* Bounds of the exploration *)

MaxCalls == 3        \* operations per behaviour (first construction excluded)

----------------------------------------------------------------------------
(* Python values *)

None == "<None>"          \* None in a string-valued field or return value
NoTime == -1              \* None in start_time / end_time
KeyError == "<KeyError>"  \* the call raised KeyError

EmptyDetails == [k \in {} |-> ""]                 \* {}
NoDetails == [k \in {"<None>"} |-> "<None>"]     \* details=None

(* Values a caller may put into details (Dict[str, Any]). *)
TupleVal == "tuple(80, 443)"       \* a tuple: json writes it as an array
ListVal == "list[80, 443]"         \* what json.load returns for that array
SetVal == "set{80}"                \* a set: not JSON serializable

----------------------------------------------------------------------------
(* The stage table, lines 40-118 *)

stage_definitions ==
    [ validation         |-> [id |-> "VAL-001", dependencies |-> << >>],
      prerequisites      |-> [id |-> "PRE-002", dependencies |-> << "validation" >>],
      homebrew_install   |-> [id |-> "HBR-003", dependencies |-> << "prerequisites" >>],
      java_install       |-> [id |-> "JDK-004", dependencies |-> << "homebrew_install" >>],
      maven_install      |-> [id |-> "MVN-005", dependencies |-> << "java_install" >>],
      node_install       |-> [id |-> "NOD-006", dependencies |-> << "homebrew_install" >>],
      mysql_install      |-> [id |-> "SQL-007", dependencies |-> << "homebrew_install" >>],
      docker_setup       |-> [id |-> "DOC-008", dependencies |-> << "prerequisites" >>],
      git_github_setup   |-> [id |-> "GIT-009", dependencies |-> << "prerequisites" >>],
      jfrog_maven_setup  |-> [id |-> "JFR-010", dependencies |-> << "maven_install" >>],
      database_setup     |-> [id |-> "DBS-011", dependencies |-> << "mysql_install" >>],
      repository_clone   |-> [id |-> "REP-012", dependencies |-> << "git_github_setup" >>],
      intellij_setup     |-> [id |-> "IDE-013", dependencies |-> << "repository_clone", "maven_install" >>],
      build_verification |-> [id |-> "BLD-014", dependencies |-> << "jfrog_maven_setup", "database_setup" >>],
      final_validation   |-> [id |-> "FIN-015", dependencies |-> << "build_verification", "intellij_setup" >>] ]

(* self.stages = list(self.stage_definitions.keys()): insertion order *)
stages ==
    << "validation", "prerequisites", "homebrew_install", "java_install",
       "maven_install", "node_install", "mysql_install", "docker_setup",
       "git_github_setup", "jfrog_maven_setup", "database_setup",
       "repository_clone", "intellij_setup", "build_verification",
       "final_validation" >>

StageNames == { stages[i] : i \in 1..Len(stages) }

(* position of a name in self.stages, 0 when it is not a defined stage *)
StageIndex(name) ==
    IF name \in StageNames
    THEN CHOOSE i \in 1..Len(stages) : stages[i] = name
    ELSE 0

----------------------------------------------------------------------------
(* StageStatus dataclass, lines 17-30 *)

StageFields ==
    { "name", "status", "stage_id", "checksum", "start_time", "end_time",
      "error_message", "details" }

RequiredFields == { "name", "status", "stage_id" }

(* StageStatus(...) followed by __post_init__ *)
StageStatus(name, status, stage_id, checksum, start_time, end_time, error_message, details) ==
    [ name          |-> name,
      status        |-> status,
      stage_id      |-> stage_id,
      checksum      |-> checksum,
      start_time    |-> start_time,
      end_time      |-> end_time,
      error_message |-> error_message,
      details       |-> IF details = NoDetails THEN EmptyDetails ELSE details ]

(* dict.update *)
DictUpdate(old, new) ==
    [ k \in (DOMAIN old) \cup (DOMAIN new) |->
        IF k \in DOMAIN new THEN new[k] ELSE old[k] ]

(* "if details:" is false for None and for the empty dict *)
Truthy(details) == details # NoDetails /\ details # EmptyDetails

----------------------------------------------------------------------------
(* Configuration and its checksum, lines 36 and 153-163 *)

(* A configuration maps section names to sections; a section is the       *)
(* sequence of its (key, value) items in the order they were written, and  *)
(* it may be absent.                                                       *)
EmptyConfig == [s \in {} |-> << >>]          \* config_data or {}

FirstConfig == [versions |-> << << "java", "17" >>, << "maven", "3.9" >> >>]

(* the configuration of a later run: the same, or with the keys of a       *)
(* section written in another order and an untracked section added         *)
Configs ==
    { FirstConfig,
      [versions |-> << << "maven", "3.9" >>, << "java", "17" >> >>,
       aws |-> << << "region", "us" >> >>] }

(* self.config_data.get(section, {}) *)
ConfigGet(cfg, section) == IF section \in DOMAIN cfg THEN cfg[section] ELSE << >>

NoChecksum == << "<None>" >>              \* checksum=None

(* json.dumps without sort_keys: the items in the order they were written *)
Dump_Unsorted(section) == section

(* json.dumps(..., sort_keys=True), line 162: the items by key, which is   *)
(* the same text for the same set of items                                 *)
SortedDump(section) == { section[i] : i \in 1..Len(section) }

(* md5 of the key-sorted dump of the four tracked sections, lines 155-163, *)
(* taken as injective on that dump                                         *)
_calculate_config_checksum(cfg) ==
    << SortedDump(ConfigGet(cfg, "versions")), SortedDump(ConfigGet(cfg, "paths")),
       SortedDump(ConfigGet(cfg, "setup_options")), SortedDump(ConfigGet(cfg, "user")) >>

(* lines 140-151 *)
_initialize_progress(cfg) ==
    [ stage_name \in StageNames |->
        StageStatus(stage_name, "pending", stage_definitions[stage_name].id,
                    _calculate_config_checksum(cfg), NoTime, NoTime, None,
                    NoDetails) ]

----------------------------------------------------------------------------
(* JSON encoding of the stage records *)

(* json.dump raises TypeError on a value it cannot encode *)
JsonSerializable(details) == \A k \in DOMAIN details : details[k] # SetVal

(* what json.load gives back for a dumped details mapping *)
JsonImage(details) ==
    [ k \in DOMAIN details |->
        IF details[k] = TupleVal THEN ListVal ELSE details[k] ]

(* asdict(stage_status) as it reads back from the file *)
DumpStage(st) == [st EXCEPT !.details = JsonImage(@)]

(* The entry passed as keyword arguments to StageStatus: TypeError on a    *)
(* missing required or an unexpected keyword, defaults for the optional    *)
(* ones, line 133                                                          *)
WellFormedEntry(e) ==
    /\ RequiredFields \subseteq DOMAIN e
    /\ (DOMAIN e) \subseteq StageFields

(* FromDict with end_time left out of the keywords it passes on *)
FromDict_DropsEndTime(e) ==
    StageStatus(e.name, e.status, e.stage_id,
                IF "checksum" \in DOMAIN e THEN e.checksum ELSE NoChecksum,
                IF "start_time" \in DOMAIN e THEN e.start_time ELSE NoTime,
                NoTime,
                IF "error_message" \in DOMAIN e THEN e.error_message ELSE None,
                IF "details" \in DOMAIN e THEN e.details ELSE NoDetails)

FromDict(e) ==
    StageStatus(e.name, e.status, e.stage_id,
                IF "checksum" \in DOMAIN e THEN e.checksum ELSE NoChecksum,
                IF "start_time" \in DOMAIN e THEN e.start_time ELSE NoTime,
                IF "end_time" \in DOMAIN e THEN e.end_time ELSE NoTime,
                IF "error_message" \in DOMAIN e THEN e.error_message ELSE None,
                IF "details" \in DOMAIN e THEN e.details ELSE NoDetails)

----------------------------------------------------------------------------
(* The progress file *)

NoDoc == [none |-> TRUE]

(* kind: "missing", "doc" (a JSON object), "truncated" (opened for writing  *)
(* and nothing or only a prefix of the document written), "garbage" (not   *)
(* JSON at all); readable: the process may open it for reading             *)
File(kind, readable, doc) == [kind |-> kind, readable |-> readable, doc |-> doc]

MissingFile == File("missing", TRUE, NoDoc)

EmptyStages == [n \in {} |-> NoDoc]

(* data.get('stages', {}) *)
DocStages(doc) == IF "stages" \in DOMAIN doc THEN doc.stages ELSE EmptyStages

(* the document _save_progress builds, lines 169-183; session_id and the   *)
(* embedded stage_definitions are written and never read back              *)
Metadata(pd, cfg, now) ==
    [ last_updated     |-> now,
      setup_version    |-> "1.0.0",
      config_checksum  |-> _calculate_config_checksum(cfg),
      total_stages     |-> Len(stages),
      completed_stages |-> Cardinality({ n \in DOMAIN pd : pd[n].status = "completed" }),
      stages           |-> [ n \in DOMAIN pd |-> DumpStage(pd[n]) ] ]

Serializable(pd) == \A n \in DOMAIN pd : JsonSerializable(pd[n].details)

----------------------------------------------------------------------------
(* _load_progress, lines 121-138 *)

(* the names the json module defines that the code refers to *)
JsonModuleNames == { "JSONDecodeError", "dump", "dumps", "load", "loads" }

(* the exception raised inside the try block, "ok" when there is none *)
LoadTry(file) ==
    IF ~file.readable THEN "PermissionError"
    ELSE IF file.kind # "doc" THEN "JSONDecodeError"
    ELSE IF \E n \in DOMAIN DocStages(file.doc) :
                ~WellFormedEntry(DocStages(file.doc)[n]) THEN "TypeError"
    ELSE "ok"

NoProgress == [n \in {} |-> NoDoc]

(* _load_progress that starts afresh when the file was written under       *)
(* another configuration checksum                                          *)
_load_progress_ChecksumReset(file, cfg) ==
    IF file.kind = "missing"
    THEN [exc |-> "ok", progress |-> _initialize_progress(cfg)]
    ELSE LET e == LoadTry(file) IN
         IF e = "ok"
         THEN [exc |-> "ok",
               progress |->
                 IF /\ "config_checksum" \in DOMAIN file.doc
                    /\ file.doc.config_checksum # _calculate_config_checksum(cfg)
                 THEN _initialize_progress(cfg)
                 ELSE [ n \in DOMAIN DocStages(file.doc) |->
                          FromDict(DocStages(file.doc)[n]) ]]
         ELSE [exc |-> "AttributeError", progress |-> NoProgress]

(* exc: the exception _load_progress raises, "ok" when it returns.  The    *)
(* except clause evaluates json.JSONError before it can match anything.    *)
_load_progress(file, cfg) ==
    IF file.kind = "missing"
    THEN [exc |-> "ok", progress |-> _initialize_progress(cfg)]
    ELSE LET e == LoadTry(file) IN
         IF e = "ok"
         THEN [exc |-> "ok",
               progress |-> [ n \in DOMAIN DocStages(file.doc) |->
                                FromDict(DocStages(file.doc)[n]) ]]
         ELSE IF "JSONError" \notin JsonModuleNames
         THEN [exc |-> "AttributeError", progress |-> NoProgress]
         ELSE IF e \in { "JSONError", "KeyError", "TypeError" }
         THEN [exc |-> "ok", progress |-> _initialize_progress(cfg)]
         ELSE [exc |-> e, progress |-> NoProgress]

----------------------------------------------------------------------------
(* _save_progress, lines 165-188 *)

(* What happens to the write: it goes through, open() raises, or the       *)
(* process is killed after open() truncated the file and before json.dump  *)
(* has written the whole document.                                         *)
SaveOutcomes == { "ok", "open_fails", "killed" }

Killed(outcome) == outcome = "killed"

(* the file after _save_progress *)
_save_progress(pd, cfg, file, now, outcome) ==
    IF outcome = "open_fails" THEN file
    ELSE IF Killed(outcome) \/ ~Serializable(pd)
    THEN File("truncated", file.readable, NoDoc)
    ELSE File("doc", file.readable, Metadata(pd, cfg, now))

(* "written": the whole document is in the file; "failed": the exception   *)
(* was printed and swallowed; "killed": the process died in the call       *)
SaveResult(pd, outcome) ==
    IF Killed(outcome) THEN "killed"
    ELSE IF outcome = "open_fails" \/ ~Serializable(pd) THEN "failed"
    ELSE "written"

----------------------------------------------------------------------------
(* Queries *)

(* get_stage_status, lines 232-234 *)
get_stage_status(pd, stage_name) ==
    IF stage_name \in DOMAIN pd THEN pd[stage_name] ELSE NoDoc

(* is_stage_completed, lines 236-239 *)
is_stage_completed(pd, stage_name) ==
    stage_name \in DOMAIN pd /\ pd[stage_name].status = "completed"

(* get_resume_point, lines 249-256: self.progress_data[stage_name] raises  *)
(* KeyError on a stage the mapping lacks                                   *)
RECURSIVE ResumeScan(_, _)
ResumeScan(pd, i) ==
    IF i > Len(stages) THEN None
    ELSE IF stages[i] \notin DOMAIN pd THEN KeyError
    ELSE IF pd[stages[i]].status # "completed" THEN stages[i]
    ELSE ResumeScan(pd, i + 1)

get_resume_point(pd) == ResumeScan(pd, 1)

(* get_next_pending_stage, lines 241-247 *)
RECURSIVE PendingScan(_, _)
PendingScan(pd, i) ==
    IF i > Len(stages) THEN None
    ELSE IF stages[i] \notin DOMAIN pd THEN KeyError
    ELSE IF pd[stages[i]].status \in { "pending", "failed" } THEN stages[i]
    ELSE PendingScan(pd, i + 1)

get_next_pending_stage(pd) == PendingScan(pd, 1)

(* the names of the stages of pd with the given status *)
WithStatus(pd, status) == { n \in DOMAIN pd : pd[n].status = status }

(* stage.start_time and stage.end_time, lines 283 and 328 *)
BothTimes(st) ==
    /\ st.start_time # NoTime /\ st.start_time # 0
    /\ st.end_time # NoTime /\ st.end_time # 0

(* the loop of lines 281-284 over the stages in names *)
RECURSIVE TotalTime(_, _)
TotalTime(pd, names) ==
    IF names = {} THEN 0
    ELSE LET n == CHOOSE x \in names : TRUE IN
         (IF BothTimes(pd[n]) THEN pd[n].end_time - pd[n].start_time ELSE 0)
         + TotalTime(pd, names \ { n })

(* get_progress_summary, lines 275-296; exc is the exception it raises,    *)
(* "ok" when it returns.  completion_percentage is kept as the number of   *)
(* completed stages times 100 over the number of stages.                   *)
get_progress_summary(pd) ==
    IF get_next_pending_stage(pd) = KeyError
    THEN [exc |-> "KeyError"]
    ELSE [exc |-> "ok",
          total_stages |-> Len(stages),
          completed |-> Cardinality(WithStatus(pd, "completed")),
          failed |-> Cardinality(WithStatus(pd, "failed")),
          in_progress |-> Cardinality(WithStatus(pd, "in_progress")),
          pending |-> Len(stages) - Cardinality(WithStatus(pd, "completed"))
                        - Cardinality(WithStatus(pd, "failed"))
                        - Cardinality(WithStatus(pd, "in_progress")),
          completion_percentage |->
              << Cardinality(WithStatus(pd, "completed")) * 100, Len(stages) >>,
          total_time_spent |-> TotalTime(pd, WithStatus(pd, "completed")),
          failed_stages |-> { pd[n].name : n \in WithStatus(pd, "failed") },
          next_stage |-> get_next_pending_stage(pd)]

(* the "Error:" line of a stage, lines 336-337: the message it prints,     *)
(* None when it prints no such line                                        *)
ErrorLine(st) ==
    IF st.error_message # None /\ st.error_message # "" THEN st.error_message
    ELSE None

(* DependsOnLine that lists only the dependencies that are not completed *)
DependsOnLine_Unmet(pd, stage_name) ==
    LET deps == stage_definitions[stage_name].dependencies IN
    IF pd[stage_name].status \in { "pending", "failed" } /\ deps # << >>
    THEN SelectSeq([ i \in 1..Len(deps) |-> deps[i] ],
                   LAMBDA d : pd[d].status # "completed")
    ELSE << >>

(* the "Depends on:" line of a stage, lines 339-342: the dependencies      *)
(* whose ids it prints, in the order of the table; none when it prints no  *)
(* such line                                                               *)
DependsOnLine(pd, stage_name) ==
    LET deps == stage_definitions[stage_name].dependencies IN
    IF pd[stage_name].status \in { "pending", "failed" } /\ deps # << >>
    THEN deps
    ELSE << >>

(* print_progress_report, lines 298-344: the exception it raises, "ok"     *)
(* when it returns, and then what it printed for each stage.  After the    *)
(* summary it indexes self.progress_data with every declared stage, line   *)
(* 320.                                                                    *)
print_progress_report(pd) ==
    IF get_progress_summary(pd).exc # "ok"
    THEN [exc |-> get_progress_summary(pd).exc]
    ELSE IF \E i \in 1..Len(stages) : stages[i] \notin DOMAIN pd
    THEN [exc |-> "KeyError"]
    ELSE [exc |-> "ok",
          error |-> [ n \in StageNames |-> ErrorLine(pd[n]) ],
          depends_on |->
              [ n \in StageNames |->
                  [ i \in 1..Len(DependsOnLine(pd, n)) |->
                      stage_definitions[DependsOnLine(pd, n)[i]].id ] ]]

----------------------------------------------------------------------------
(* What the transitions do to one StageStatus record *)

(* start_stage, lines 196-197 *)
StartRecord(st, now) ==
    [st EXCEPT !.status = "in_progress", !.start_time = now]

(* CompleteRecord with stage.details = details in place of update() *)
CompleteRecord_Replaces(st, now, details) ==
    [st EXCEPT !.status = "completed",
               !.end_time = now,
               !.details = IF Truthy(details) THEN details ELSE @]

(* complete_stage, lines 207-211 *)
CompleteRecord(st, now, details) ==
    [st EXCEPT !.status = "completed",
               !.end_time = now,
               !.details = IF Truthy(details) THEN DictUpdate(@, details) ELSE @]

(* FailRecord without the assignment of error_message *)
FailRecord_NoMessage(st, now, error_message, details) ==
    [st EXCEPT !.status = "failed",
               !.end_time = now,
               !.details = IF Truthy(details) THEN DictUpdate(@, details) ELSE @]

(* fail_stage, lines 222-227 *)
FailRecord(st, now, error_message, details) ==
    [st EXCEPT !.status = "failed",
               !.end_time = now,
               !.error_message = error_message,
               !.details = IF Truthy(details) THEN DictUpdate(@, details) ELSE @]

(* reset_from_stage, lines 266-271 *)
ResetRecord(st) ==
    [st EXCEPT !.status = "pending",
               !.start_time = NoTime,
               !.end_time = NoTime,
               !.error_message = None,
               !.details = EmptyDetails]

(* The loop of reset_from_stage, lines 260-271: found_stage turns true at  *)
(* stage_name, and self.progress_data[current_stage] raises KeyError at    *)
(* the first stage from there on that the mapping lacks.                   *)
ResetMissing(pd, stage_name) ==
    { i \in 1..Len(stages) :
        /\ StageIndex(stage_name) > 0
        /\ i >= StageIndex(stage_name)
        /\ stages[i] \notin DOMAIN pd }

ResetStop(pd, stage_name) ==
    IF ResetMissing(pd, stage_name) = {} THEN Len(stages) + 1
    ELSE CHOOSE i \in ResetMissing(pd, stage_name) :
            \A j \in ResetMissing(pd, stage_name) : i <= j

(* a loop without found_stage: only the named stage is reset *)
ResetLoop_OnlyNamed(pd, stage_name) ==
    [ n \in DOMAIN pd |->
        IF n = stage_name /\ StageIndex(stage_name) > 0
        THEN ResetRecord(pd[n])
        ELSE pd[n] ]

ResetLoop(pd, stage_name) ==
    [ n \in DOMAIN pd |->
        IF /\ StageIndex(stage_name) > 0
           /\ StageIndex(n) >= StageIndex(stage_name)
           /\ StageIndex(n) < ResetStop(pd, stage_name)
        THEN ResetRecord(pd[n])
        ELSE pd[n] ]

----------------------------------------------------------------------------
(* Inputs *)

(* a name that is not in the stage table; a release with another table    *)
(* may have written it to the file                                         *)
LegacyStage == "legacy_stage"

StageInputs == { "validation", "prerequisites", LegacyStage }

Messages == { "boom" }

(* details given to complete_stage and to fail_stage *)
CompleteDetails == { NoDetails, [exit_code |-> "0"], [ports |-> TupleVal] }

FailDetails == { NoDetails, [exit_code |-> "1", seen |-> SetVal] }

(* time.time(): every reading is later than the one before *)
Now == clock + 1

PriorTime == 1       \* the clock reading of the earlier run

(* The files a process may find in setup_dir when it is constructed for    *)
(* the first time.                                                         *)
PriorConfig == [versions |-> << << "java", "11" >> >>]

PriorStage(n, status, start_time, end_time) ==
    StageStatus(n, status, stage_definitions[n].id,
                _calculate_config_checksum(PriorConfig),
                start_time, end_time, None, NoDetails)

(* a run that completed every stage *)
CompletedRun == [ n \in StageNames |-> PriorStage(n, "completed", PriorTime, PriorTime) ]

(* a run of a release whose table had validation and legacy_stage only *)
LegacyRun ==
    [ n \in { "validation", LegacyStage } |->
        IF n = LegacyStage
        THEN StageStatus(n, "pending", "LEG-000",
                         _calculate_config_checksum(PriorConfig),
                         NoTime, NoTime, None, NoDetails)
        ELSE PriorStage(n, "completed", PriorTime, PriorTime) ]

InitFiles ==
    { MissingFile,
      File("garbage", TRUE, NoDoc),
      File("doc", FALSE, Metadata(CompletedRun, PriorConfig, PriorTime)),
      File("doc", TRUE, Metadata(CompletedRun, PriorConfig, PriorTime)),
      File("doc", TRUE, [Metadata(LegacyRun, PriorConfig, PriorTime) EXCEPT !.total_stages = 2]),
      File("doc", TRUE, [setup_version |-> "0.9.0"]),
      File("doc", TRUE,
           [setup_version |-> "1.0.0",
            stages |-> [validation |->
                          [name |-> "validation", stage_id |-> "VAL-001",
                           state |-> "pending"]]]) }

----------------------------------------------------------------------------
(* config_resolver.py: configuration values *)

(* A string is a sequence of tokens: literal text, a leading "~", the home *)
(* directory expanduser puts in its place, a reference ${k1.k2...} (what   *)
(* the pattern \$\{([^}]+)\} matches, its group split at the dots), and a  *)
(* "${" the pattern does not match ("${" unclosed, "${}").  Literal texts  *)
(* hold none of "~", "$", "{", "}".                                        *)
Lit(text) == [kind |-> "lit", text |-> text, path |-> << >>]
Ref(path) == [kind |-> "ref", text |-> "${}", path |-> path]
Tilde == [kind |-> "tilde", text |-> "~", path |-> << >>]
Home == [kind |-> "home", text |-> "/root", path |-> << >>]
Open == [kind |-> "open", text |-> "${", path |-> << >>]

(* The values of a configuration tree.  A dict is the sequence of its      *)
(* items in insertion order; a number is kept as its decimal text.         *)
PyStr(tokens) == [kind |-> "str", val |-> tokens]
PyInt(text) == [kind |-> "int", val |-> << Lit(text) >>]
PyNone == [kind |-> "NoneType", val |-> << >>]
PyList(elems) == [kind |-> "list", val |-> elems]
PyDict(items) == [kind |-> "dict", val |-> items]
Item(key, value) == [key |-> key, value |-> value]

(* key in current / current[key] for a dict *)
HasKey(d, key) == \E i \in 1..Len(d.val) : d.val[i].key = key
DictGet(d, key) == d.val[CHOOSE i \in 1..Len(d.val) : d.val[i].key = key].value

(* _get_nested_value raised KeyError *)
RaisedKeyError == [kind |-> "KeyError", val |-> << >>]

(* no ConfigResolver has been constructed *)
NoResolver ==
    /\ self_config = PyNone
    /\ obj = PyNone
    /\ iteration = 0
    /\ rpc = "none"
    /\ warned = FALSE
    /\ first_result = PyNone

----------------------------------------------------------------------------
(* config_resolver.py: the passes *)

(* obj.startswith('~'), line 100 *)
startswith_tilde(text) == text # << >> /\ Head(text).kind = "tilde"

(* str(Path(obj).expanduser()), line 101, for "~" and "~/..." *)
expanduser(text) == << Home >> \o Tail(text)

(* lines 84-103 *)
RECURSIVE _expand_tilde_paths(_)
_expand_tilde_paths(o) ==
    IF o.kind = "dict"
    THEN PyDict([ i \in 1..Len(o.val) |->
                    Item(o.val[i].key, _expand_tilde_paths(o.val[i].value)) ])
    ELSE IF o.kind = "list"
    THEN PyList([ i \in 1..Len(o.val) |-> _expand_tilde_paths(o.val[i]) ])
    ELSE IF o.kind = "str"
    THEN IF startswith_tilde(o.val) THEN PyStr(expanduser(o.val)) ELSE o
    ELSE o

(* lines 184-210: keys = path.split('.'), then one step per key *)
RECURSIVE _get_nested_value(_, _)
_get_nested_value(current, keys) ==
    IF keys = << >> THEN current
    ELSE IF current.kind = "dict" /\ HasKey(current, Head(keys))
    THEN _get_nested_value(DictGet(current, Head(keys)), Tail(keys))
    ELSE RaisedKeyError

(* repr(value), which str() of a dict or a list applies to what it holds *)
RECURSIVE repr(_)
RECURSIVE repr_items(_, _)
RECURSIVE repr_elems(_, _)
repr(value) ==
    IF value.kind = "str" THEN << Lit("'") >> \o value.val \o << Lit("'") >>
    ELSE IF value.kind = "int" THEN value.val
    ELSE IF value.kind = "NoneType" THEN << Lit("None") >>
    ELSE IF value.kind = "dict"
    THEN << Lit("{") >> \o repr_items(value.val, 1) \o << Lit("}") >>
    ELSE << Lit("[") >> \o repr_elems(value.val, 1) \o << Lit("]") >>

repr_items(items, i) ==
    IF i > Len(items) THEN << >>
    ELSE << Lit("'"), Lit(items[i].key), Lit("': ") >> \o repr(items[i].value)
         \o (IF i < Len(items) THEN << Lit(", ") >> ELSE << >>)
         \o repr_items(items, i + 1)

repr_elems(elems, i) ==
    IF i > Len(elems) THEN << >>
    ELSE repr(elems[i])
         \o (IF i < Len(elems) THEN << Lit(", ") >> ELSE << >>)
         \o repr_elems(elems, i + 1)

(* str(value), line 176 *)
str(value) == IF value.kind = "str" THEN value.val ELSE repr(value)

(* replace_var that puts nothing where the lookup raises KeyError *)
replace_var_DropsMissing(match, config) ==
    LET value == _get_nested_value(config, match.path) IN
    IF value.kind = "KeyError" THEN << >>
    ELSE IF value.kind # "NoneType" THEN str(value)
    ELSE << match >>

(* replace_var, lines 171-179: the lookup is made in self.config *)
replace_var(match, config) ==
    LET value == _get_nested_value(config, match.path) IN
    IF value.kind = "KeyError" THEN << match >>
    ELSE IF value.kind # "NoneType" THEN str(value)
    ELSE << match >>

(* re.sub with count=1: only the first reference of a string is replaced *)
RECURSIVE _resolve_string_variables_FirstOnly(_, _)
_resolve_string_variables_FirstOnly(text, config) ==
    IF text = << >> THEN << >>
    ELSE IF Head(text).kind = "ref" THEN replace_var(Head(text), config) \o Tail(text)
    ELSE << Head(text) >> \o _resolve_string_variables_FirstOnly(Tail(text), config)

(* re.sub(pattern, replace_var, text), line 182 *)
RECURSIVE _resolve_string_variables(_, _)
_resolve_string_variables(text, config) ==
    IF text = << >> THEN << >>
    ELSE (IF Head(text).kind = "ref" THEN replace_var(Head(text), config)
          ELSE << Head(text) >>)
         \o _resolve_string_variables(Tail(text), config)

(* lines 135-155 *)
RECURSIVE _resolve_variables_single_pass(_, _)
_resolve_variables_single_pass(o, config) ==
    IF o.kind = "dict"
    THEN PyDict([ i \in 1..Len(o.val) |->
                    Item(o.val[i].key,
                         _resolve_variables_single_pass(o.val[i].value, config)) ])
    ELSE IF o.kind = "list"
    THEN PyList([ i \in 1..Len(o.val) |->
                    _resolve_variables_single_pass(o.val[i], config) ])
    ELSE IF o.kind = "str"
    THEN PyStr(_resolve_string_variables(o.val, config))
    ELSE o

(* '${' in obj, line 230 *)
contains_dollar_brace(text) ==
    \E i \in 1..Len(text) : text[i].kind \in { "ref", "open" }

(* lines 212-232 *)
RECURSIVE _has_unresolved_variables(_)
_has_unresolved_variables(o) ==
    IF o.kind = "dict"
    THEN \E i \in 1..Len(o.val) : _has_unresolved_variables(o.val[i].value)
    ELSE IF o.kind = "list"
    THEN \E i \in 1..Len(o.val) : _has_unresolved_variables(o.val[i])
    ELSE IF o.kind = "str" THEN contains_dollar_brace(o.val)
    ELSE FALSE

(* max_iterations, line 105 *)
max_iterations == 10

----------------------------------------------------------------------------
(* The state machine *)

Call(op, name, msg, ret, save) ==
    [op |-> op, name |-> name, msg |-> msg, ret |-> ret, save |-> save]

(* ProgressTracker(setup_dir, config_data), lines 33-119: the first run,   *)
(* with the configuration as first written                                 *)
Init ==
    \E f \in InitFiles, cfg \in { FirstConfig } :
        /\ metadata_file = f
        /\ config_data = cfg
        /\ progress_data = _load_progress(f, cfg).progress
        /\ proc = IF _load_progress(f, cfg).exc = "ok" THEN "running" ELSE "raised"
        /\ lastCall = Call("__init__", None, None,
                           _load_progress(f, cfg).exc, "none")
        /\ clock = PriorTime
        /\ calls = 0
        /\ NoResolver

CanCall == proc = "running" /\ calls < MaxCalls

(* the call returned False before touching anything *)
Rejected(op, name, msg) ==
    /\ lastCall' = Call(op, name, msg, "False", "none")
    /\ calls' = calls + 1
    /\ UNCHANGED << progress_data, metadata_file, config_data, clock, proc >>
    /\ UNCHANGED rvars

(* Saved with a _save_progress that lets the exception of a failed write  *)
(* out of the call                                                         *)
Saved_Propagates(op, name, msg, ret, pd, outcome) ==
    /\ progress_data' = IF Killed(outcome) THEN NoProgress ELSE pd
    /\ metadata_file' = _save_progress(pd, config_data, metadata_file, Now, outcome)
    /\ clock' = Now
    /\ proc' = IF Killed(outcome) THEN "killed" ELSE "running"
    /\ lastCall' = Call(op, name, msg,
                        IF Killed(outcome) THEN "killed"
                        ELSE IF SaveResult(pd, outcome) = "failed" THEN "Exception"
                        ELSE ret,
                        SaveResult(pd, outcome))
    /\ calls' = calls + 1
    /\ UNCHANGED config_data
    /\ UNCHANGED rvars

(* the call changed the records to pd and went on to _save_progress; a    *)
(* process killed there takes its records with it                         *)
Saved(op, name, msg, ret, pd, outcome) ==
    /\ progress_data' = IF Killed(outcome) THEN NoProgress ELSE pd
    /\ metadata_file' = _save_progress(pd, config_data, metadata_file, Now, outcome)
    /\ clock' = Now
    /\ proc' = IF Killed(outcome) THEN "killed" ELSE "running"
    /\ lastCall' = Call(op, name, msg,
                        IF Killed(outcome) THEN "killed" ELSE ret,
                        SaveResult(pd, outcome))
    /\ calls' = calls + 1
    /\ UNCHANGED config_data
    /\ UNCHANGED rvars

(* lines 190-199 *)
start_stage(stage_name) ==
    /\ CanCall
    /\ IF stage_name \notin DOMAIN progress_data
       THEN Rejected("start_stage", stage_name, None)
       ELSE \E outcome \in SaveOutcomes :
              Saved("start_stage", stage_name, None, "True",
                    [progress_data EXCEPT ![stage_name] = StartRecord(@, Now)],
                    outcome)

(* lines 201-214 *)
complete_stage(stage_name, details) ==
    /\ CanCall
    /\ IF stage_name \notin DOMAIN progress_data
       THEN Rejected("complete_stage", stage_name, None)
       ELSE \E outcome \in SaveOutcomes :
              Saved("complete_stage", stage_name, None, "True",
                    [progress_data EXCEPT ![stage_name] = CompleteRecord(@, Now, details)],
                    outcome)

(* lines 216-230 *)
fail_stage(stage_name, error_message, details) ==
    /\ CanCall
    /\ IF stage_name \notin DOMAIN progress_data
       THEN Rejected("fail_stage", stage_name, error_message)
       ELSE \E outcome \in SaveOutcomes :
              Saved("fail_stage", stage_name, error_message, "True",
                    [progress_data EXCEPT ![stage_name] =
                        FailRecord(@, Now, error_message, details)],
                    outcome)

(* lines 258-273 *)
reset_from_stage(stage_name) ==
    /\ CanCall
    /\ IF ResetMissing(progress_data, stage_name) # {}
       THEN /\ progress_data' = ResetLoop(progress_data, stage_name)
            /\ lastCall' = Call("reset_from_stage", stage_name, None, KeyError, "none")
            /\ calls' = calls + 1
            /\ UNCHANGED << metadata_file, config_data, clock, proc >>
            /\ UNCHANGED rvars
       ELSE \E outcome \in SaveOutcomes :
              Saved("reset_from_stage", stage_name, None, None,
                    ResetLoop(progress_data, stage_name), outcome)

(* lines 346-349 *)
cleanup_metadata ==
    /\ CanCall
    /\ metadata_file' = IF metadata_file.kind # "missing" THEN MissingFile
                        ELSE metadata_file
    /\ lastCall' = Call("cleanup_metadata", None, None, None, "none")
    /\ calls' = calls + 1
    /\ UNCHANGED << progress_data, config_data, clock, proc >>
    /\ UNCHANGED rvars

(* The process has ended (killed between two calls, killed in a save, the  *)
(* constructor raised, or the run is over) and the next run constructs a   *)
(* ProgressTracker on the same setup_dir, lines 33-119.                    *)
Restart ==
    /\ calls < MaxCalls
    /\ \E cfg \in Configs :
        /\ config_data' = cfg
        /\ progress_data' = _load_progress(metadata_file, cfg).progress
        /\ proc' = IF _load_progress(metadata_file, cfg).exc = "ok"
                   THEN "running" ELSE "raised"
        /\ lastCall' = Call("__init__", None, None,
                            _load_progress(metadata_file, cfg).exc, "none")
    /\ calls' = calls + 1
    /\ UNCHANGED << metadata_file, clock >>
    /\ UNCHANGED rvars

Next ==
    \/ \E n \in StageInputs : start_stage(n)
    \/ \E n \in StageInputs, d \in CompleteDetails : complete_stage(n, d)
    \/ \E n \in StageInputs, m \in Messages, d \in FailDetails : fail_stage(n, m, d)
    \/ \E n \in StageInputs : reset_from_stage(n)
    \/ cleanup_metadata
    \/ Restart

Spec == Init /\ [][Next]_vars

----------------------------------------------------------------------------
(* A caller that runs one stage at a time: it starts the stage that        *)
(* get_resume_point() returns, completes or fails that stage, and ends its *)
(* run at the first failure; between two stages it may reset from a stage  *)
(* or remove the file.  The process may be killed and run again anywhere.  *)

(* the file an earlier run of such a caller left: the first k stages       *)
(* completed and the next one pending, in progress or failed               *)
RunnerRun(k, status) ==
    [ n \in StageNames |->
        IF StageIndex(n) <= k THEN PriorStage(n, "completed", PriorTime, PriorTime)
        ELSE IF StageIndex(n) = k + 1 /\ status = "in_progress"
        THEN PriorStage(n, "in_progress", PriorTime, NoTime)
        ELSE IF StageIndex(n) = k + 1 /\ status = "failed"
        THEN [PriorStage(n, "failed", PriorTime, PriorTime)
                 EXCEPT !.error_message = "boom"]
        ELSE PriorStage(n, "pending", NoTime, NoTime) ]

RunnerFiles ==
    { MissingFile } \cup
    { File("doc", TRUE, Metadata(RunnerRun(k, status), PriorConfig, PriorTime)) :
        k \in 0..Len(stages), status \in { "pending", "in_progress", "failed" } }

RunnerInit ==
    \E f \in RunnerFiles, cfg \in { FirstConfig } :
        /\ metadata_file = f
        /\ config_data = cfg
        /\ progress_data = _load_progress(f, cfg).progress
        /\ proc = IF _load_progress(f, cfg).exc = "ok" THEN "running" ELSE "raised"
        /\ lastCall = Call("__init__", None, None,
                           _load_progress(f, cfg).exc, "none")
        /\ clock = PriorTime
        /\ calls = 0
        /\ NoResolver

(* the caller is between two stages *)
Idle ==
    /\ proc = "running"
    /\ lastCall.op \in { "__init__", "complete_stage", "reset_from_stage",
                         "cleanup_metadata" }

(* the caller has started the stage lastCall.name and not yet ended it *)
InStage ==
    /\ proc = "running"
    /\ lastCall.op = "start_stage"
    /\ lastCall.ret = "True"

RunnerStart ==
    /\ Idle
    /\ get_resume_point(progress_data) \in StageNames
    /\ start_stage(get_resume_point(progress_data))

RunnerComplete ==
    /\ InStage
    /\ \E d \in CompleteDetails : complete_stage(lastCall.name, d)

RunnerFail ==
    /\ InStage
    /\ \E m \in Messages, d \in FailDetails : fail_stage(lastCall.name, m, d)

(* the stages the caller resets from: the first, one in the middle and the *)
(* last                                                                    *)
ResetInputs == { "validation", "docker_setup", "final_validation" }

RunnerReset ==
    /\ Idle
    /\ \E n \in ResetInputs : reset_from_stage(n)

RunnerCleanup ==
    /\ Idle
    /\ cleanup_metadata

RunnerNext ==
    \/ RunnerStart
    \/ RunnerComplete
    \/ RunnerFail
    \/ RunnerReset
    \/ RunnerCleanup
    \/ Restart

RunnerSpec == RunnerInit /\ [][RunnerNext]_vars

(* _resolve_variable_references, lines 121-133, from pass i + 1 on: what   *)
(* it returns                                                              *)
RECURSIVE resolve_loop(_, _, _)
resolve_loop(o, config, i) ==
    IF i >= max_iterations THEN o
    ELSE LET resolved_obj == _resolve_variables_single_pass(o, config) IN
         IF _has_unresolved_variables(resolved_obj)
         THEN resolve_loop(resolved_obj, config, i + 1)
         ELSE resolved_obj

(* ConfigResolver(config).resolve_variables(), lines 77-82: what it returns *)
resolved_config(config) == resolve_loop(_expand_tilde_paths(config), config, 0)

----------------------------------------------------------------------------
(* config_resolver.py: the configurations given to ConfigResolver *)

MaxChain == 11       \* longest chain of references among the inputs

(* the example of the module docstring, lines 17-24 *)
DocstringExample ==
    PyDict(<< Item("base_paths",
                   PyDict(<< Item("workspace_root",
                                  PyStr(<< Tilde, Lit("/Development") >>)) >>)),
              Item("paths",
                   PyDict(<< Item("repo",
                                  PyStr(<< Ref(<< "base_paths", "workspace_root" >>),
                                           Lit("/repo") >>)) >>)) >>)

(* {"a": {"b": "X"}, "c": "${a.b}/y"} *)
NestedExample ==
    PyDict(<< Item("a", PyDict(<< Item("b", PyStr(<< Lit("X") >>)) >>)),
              Item("c", PyStr(<< Ref(<< "a", "b" >>), Lit("/y") >>)) >>)

(* {"k1": "${k2}", ..., "kn": "${kn+1}", "kn+1": final}: a chain of n     *)
(* references                                                              *)
ChainKeys ==
    << "k1", "k2", "k3", "k4", "k5", "k6", "k7", "k8", "k9", "k10",
       "k11", "k12", "k13", "k14" >>

ChainTree(n, final) ==
    PyDict([ i \in 1..(n + 1) |->
               Item(ChainKeys[i],
                    IF i <= n THEN PyStr(<< Ref(<< ChainKeys[i + 1] >>) >>)
                    ELSE final) ])

ChainFinals == { PyStr(<< Lit("Z") >>), PyStr(<< Tilde, Lit("/w") >>) }

(* {"a": va, "b": vb, "d": {"b": vd}, "l": [vl], "n": None} *)
MixedTree(va, vb, vd, vl) ==
    PyDict(<< Item("a", va),
              Item("b", vb),
              Item("d", PyDict(<< Item("b", vd) >>)),
              Item("l", PyList(<< vl >>)),
              Item("n", PyNone) >>)

ValuesA ==
    { PyStr(<< Ref(<< "b" >>) >>),
      PyStr(<< Ref(<< "b" >>), Lit("/y") >>),
      PyStr(<< Ref(<< "d", "b" >>), Lit("-"), Ref(<< "b" >>) >>),
      PyStr(<< Ref(<< "zz" >>), Lit("/q"), Ref(<< "b" >>) >>),
      PyStr(<< Ref(<< "b", "x" >>) >>),
      PyStr(<< Ref(<< "l", "0" >>) >>),
      PyStr(<< Ref(<< "d" >>) >>),
      PyStr(<< Ref(<< "n" >>) >>),
      PyStr(<< Lit("x"), Ref(<< "a" >>) >>),
      PyStr(<< Lit("x"), Open >>),
      PyStr(<< Ref(<< "b" >>), Tilde, Lit("/y") >>) }

ValuesB ==
    { PyStr(<< Lit("Z") >>),
      PyStr(<< Tilde, Lit("/w") >>),
      PyStr(<< Ref(<< "d", "b" >>) >>),
      PyStr(<< Ref(<< "a" >>) >>),
      PyStr(<< Ref(<< "zz" >>) >>),
      PyStr(<< >>),
      PyInt("5") }

ValuesD ==
    { PyStr(<< Lit("X") >>),
      PyStr(<< Tilde, Lit("/w") >>),
      PyStr(<< Ref(<< "b" >>) >>) }

ValuesL ==
    { PyStr(<< Ref(<< "d", "b" >>), Lit("/y") >>),
      PyStr(<< Tilde, Lit("/w") >>) }

InputConfigs ==
    { DocstringExample, NestedExample }
    \cup { ChainTree(n, final) : n \in 1..MaxChain, final \in ChainFinals }
    \cup { MixedTree(va, vb, vd, vl) :
             va \in ValuesA, vb \in ValuesB, vd \in ValuesD, vl \in ValuesL }

----------------------------------------------------------------------------
(* config_resolver.py: the state machine *)

(* no ProgressTracker is part of the run *)
NoTracker ==
    /\ progress_data = NoProgress
    /\ metadata_file = MissingFile
    /\ config_data = EmptyConfig
    /\ clock = 0
    /\ proc = "none"
    /\ lastCall = [op |-> None, name |-> None, msg |-> None, ret |-> None, save |-> "none"]
    /\ calls = 0

(* ConfigResolver(config), lines 49-57 *)
ResolverInit ==
    /\ NoTracker
    /\ \E config \in InputConfigs : self_config = config
    /\ obj = PyNone
    /\ iteration = 0
    /\ rpc = "constructed"
    /\ warned = FALSE
    /\ first_result = PyNone

(* resolve_variables whose ~ pass assigns into the containers of          *)
(* self.config instead of building new ones                                *)
resolve_variables_InPlace ==
    /\ rpc = "constructed"
    /\ obj' = _expand_tilde_paths(self_config)
    /\ self_config' = _expand_tilde_paths(self_config)
    /\ iteration' = 0
    /\ rpc' = "loop"
    /\ UNCHANGED << warned, first_result >>
    /\ UNCHANGED tvars

(* resolve_variables(), lines 77-79: self.config.copy(), then the ~ pass,  *)
(* which builds the containers of its result anew                          *)
resolve_variables ==
    /\ rpc = "constructed"
    /\ obj' = _expand_tilde_paths(self_config)
    /\ iteration' = 0
    /\ rpc' = "loop"
    /\ UNCHANGED << self_config, warned, first_result >>
    /\ UNCHANGED tvars

(* one turn of the loop of _resolve_variable_references, lines 121-129 *)
single_pass ==
    /\ rpc = "loop"
    /\ iteration < max_iterations
    /\ obj' = _resolve_variables_single_pass(obj, self_config)
    /\ iteration' = iteration + 1
    /\ rpc' = IF _has_unresolved_variables(obj') THEN "loop" ELSE "returned"
    /\ UNCHANGED << self_config, warned, first_result >>
    /\ UNCHANGED tvars

(* give_up without the print of line 132 *)
give_up_Silent ==
    /\ rpc = "loop"
    /\ iteration = max_iterations
    /\ rpc' = "returned"
    /\ UNCHANGED << self_config, obj, iteration, warned, first_result >>
    /\ UNCHANGED tvars

(* the loop ran out, lines 131-133 *)
give_up ==
    /\ rpc = "loop"
    /\ iteration = max_iterations
    /\ warned' = TRUE
    /\ rpc' = "returned"
    /\ UNCHANGED << self_config, obj, iteration, first_result >>
    /\ UNCHANGED tvars

(* ConfigResolver(resolved): a second resolver is constructed on the tree  *)
(* the first one returned, when that tree holds no "${"                    *)
resolve_again ==
    /\ rpc = "returned"
    /\ first_result = PyNone
    /\ ~_has_unresolved_variables(obj)
    /\ first_result' = obj
    /\ self_config' = obj
    /\ obj' = PyNone
    /\ iteration' = 0
    /\ warned' = FALSE
    /\ rpc' = "constructed"
    /\ UNCHANGED tvars

ResolverNext ==
    \/ resolve_variables
    \/ single_pass
    \/ give_up
    \/ resolve_again

ResolverSpec == ResolverInit /\ [][ResolverNext]_vars

(* resolve_variables is straight-line code around one bounded for loop:    *)
(* once called, each of its steps is taken                                 *)
ResolverFairSpec ==
    /\ ResolverSpec
    /\ WF_vars(resolve_variables)
    /\ WF_vars(single_pass)
    /\ WF_vars(give_up)

----------------------------------------------------------------------------
(* Properties *)

Transitions == { "start_stage", "complete_stage", "fail_stage", "reset_from_stage" }

AllCompleted(pd) ==
    \A n \in StageNames : n \in DOMAIN pd /\ pd[n].status = "completed"

(* n is the first stage in declared order whose status is not completed *)
FirstNotCompleted(pd, n) ==
    /\ n \in StageNames
    /\ n \in DOMAIN pd
    /\ pd[n].status # "completed"
    /\ \A i \in 1..(StageIndex(n) - 1) :
          stages[i] \in DOMAIN pd /\ pd[stages[i]].status = "completed"

(* C1: in every state of a constructed tracker, get_resume_point() returns *)
(* the first stage in declared order whose status is not completed, and    *)
(* None exactly when all 15 stages are completed.                          *)
C1_ResumePointIsFirstNotCompleted ==
    proc = "running" =>
        /\ (get_resume_point(progress_data) = None <=> AllCompleted(progress_data))
        /\ (get_resume_point(progress_data) # None =>
               FirstNotCompleted(progress_data, get_resume_point(progress_data)))

(* C2: constructing a ProgressTracker never raises, and when the file is   *)
(* missing, unreadable, not JSON or holds entries that are no StageStatus  *)
(* records, the result is the fresh snapshot with every stage pending.     *)
C2_LoadNeverRaises ==
    lastCall.op = "__init__" =>
        /\ proc = "running"
        /\ lastCall.ret = "ok"
        /\ (metadata_file.kind = "missing" \/ LoadTry(metadata_file) # "ok") =>
              /\ DOMAIN progress_data = StageNames
              /\ \A n \in StageNames : progress_data[n].status = "pending"

(* C3: after a successful construction and after any operations, the keys  *)
(* of progress_data are exactly the names of stage_definitions.            *)
C3_KeysAreStageNames ==
    proc = "running" => DOMAIN progress_data = StageNames

(* the status changes the state machine of the specification allows *)
AllowedChange(op, old, new) ==
    \/ old = new
    \/ op = "start_stage" /\ old \in { "pending", "failed" } /\ new = "in_progress"
    \/ op = "complete_stage" /\ old = "in_progress" /\ new = "completed"
    \/ op = "fail_stage" /\ old = "in_progress" /\ new = "failed"
    \/ op = "reset_from_stage" /\ old \in { "failed", "completed" } /\ new = "pending"

(* C4: start_stage, complete_stage, fail_stage and reset_from_stage change *)
(* a status only along pending->in_progress, in_progress->completed,       *)
(* in_progress->failed, failed->in_progress and failed/completed->pending. *)
C4_OnlyStateMachineTransitions ==
    [][ lastCall'.op \in Transitions =>
          \A n \in (DOMAIN progress_data) \cap (DOMAIN progress_data') :
              AllowedChange(lastCall'.op, progress_data[n].status,
                            progress_data'[n].status) ]_vars

(* C5: once start_stage(name) has returned and its save went through, the  *)
(* file shows the stage in_progress with a start_time and no end_time.     *)
C5_StartedStageOnDisk ==
    (lastCall.op = "start_stage" /\ lastCall.ret = "True" /\ lastCall.save = "written") =>
        /\ metadata_file.kind = "doc"
        /\ lastCall.name \in DOMAIN DocStages(metadata_file.doc)
        /\ DocStages(metadata_file.doc)[lastCall.name].status = "in_progress"
        /\ DocStages(metadata_file.doc)[lastCall.name].start_time # NoTime
        /\ DocStages(metadata_file.doc)[lastCall.name].end_time = NoTime

(* C6: after fail_stage(name, msg) has returned on a stage that was the    *)
(* resume point, the stage is failed, its error_message is msg and         *)
(* get_resume_point() still returns name.                                  *)
C6_FailedStageStaysResumePoint ==
    [][ ( /\ lastCall'.op = "fail_stage"
          /\ lastCall'.ret = "True"
          /\ get_resume_point(progress_data) = lastCall'.name ) =>
            /\ progress_data'[lastCall'.name].status = "failed"
            /\ progress_data'[lastCall'.name].error_message = lastCall'.msg
            /\ get_resume_point(progress_data') = lastCall'.name ]_vars

(* the second stage has failed after it was started, the first one is      *)
(* completed, and the second is the resume point                           *)
C6_Witness ==
    /\ proc = "running"
    /\ lastCall.op = "fail_stage"
    /\ lastCall.ret = "True"
    /\ lastCall.name = "prerequisites"
    /\ lastCall.msg = "boom"
    /\ DOMAIN progress_data = StageNames
    /\ progress_data["prerequisites"].status = "failed"
    /\ progress_data["prerequisites"].error_message = "boom"
    /\ progress_data["prerequisites"].start_time # NoTime
    /\ progress_data["prerequisites"].end_time > progress_data["prerequisites"].start_time
    /\ progress_data["validation"].status = "completed"
    /\ progress_data["homebrew_install"].status = "pending"
    /\ get_resume_point(progress_data) = "prerequisites"

(* C7: reset_from_stage(name) for a defined stage sets name and every      *)
(* later stage to pending with the timestamps, error_message and details   *)
(* cleared, leaves every earlier stage as it was and saves once.           *)
C7_ResetFromStage ==
    [][ ( /\ lastCall'.op = "reset_from_stage"
          /\ lastCall'.name \in StageNames
          /\ lastCall'.ret # "killed" ) =>
            /\ lastCall'.ret = None
            /\ lastCall'.save # "none"
            /\ \A i \in 1..Len(stages) :
                 IF i >= StageIndex(lastCall'.name)
                 THEN /\ stages[i] \in DOMAIN progress_data'
                      /\ progress_data'[stages[i]].status = "pending"
                      /\ progress_data'[stages[i]].start_time = NoTime
                      /\ progress_data'[stages[i]].end_time = NoTime
                      /\ progress_data'[stages[i]].error_message = None
                      /\ progress_data'[stages[i]].details = EmptyDetails
                 ELSE /\ stages[i] \in DOMAIN progress_data
                      /\ stages[i] \in DOMAIN progress_data'
                      /\ progress_data'[stages[i]] = progress_data[stages[i]] ]_vars

(* the tracker a new process would construct from the file now *)
Reloaded == _load_progress(metadata_file, config_data)

(* C8 as stated: after an operation whose save succeeded, a tracker built  *)
(* from the file has, for every stage, the same record as memory, details  *)
(* included.                                                               *)
C8_RoundTripIdentical ==
    (proc = "running" /\ lastCall.save = "written") =>
        /\ Reloaded.exc = "ok"
        /\ Reloaded.progress = progress_data

(* C8 amended: after an operation whose save succeeded, a tracker built    *)
(* from the file has, for every stage, the same status, stage_id,          *)
(* checksum, start_time, end_time and error_message as memory, and the     *)
(* details of memory as JSON decodes them (a tuple comes back as a list),  *)
(* hence the same details when these hold JSON values only.                *)
C8_RoundTripUpToJson ==
    (proc = "running" /\ lastCall.save = "written") =>
        /\ Reloaded.exc = "ok"
        /\ DOMAIN Reloaded.progress = DOMAIN progress_data
        /\ \A n \in DOMAIN progress_data :
             /\ Reloaded.progress[n] =
                  [progress_data[n] EXCEPT !.details = JsonImage(@)]
             /\ (\A k \in DOMAIN progress_data[n].details :
                    progress_data[n].details[k] # TupleVal)
                  => Reloaded.progress[n] = progress_data[n]

(* one stage has failed with a message, another was started and completed  *)
(* with details, and the last save went through                            *)
C8_Witness ==
    /\ proc = "running"
    /\ lastCall.op = "complete_stage"
    /\ lastCall.save = "written"
    /\ DOMAIN progress_data = StageNames
    /\ progress_data["validation"].status = "completed"
    /\ progress_data["validation"].start_time # NoTime
    /\ progress_data["validation"].end_time # NoTime
    /\ progress_data["validation"].details = [exit_code |-> "0"]
    /\ progress_data["prerequisites"].status = "failed"
    /\ progress_data["prerequisites"].error_message = "boom"

(* C9: start_stage, complete_stage or fail_stage with a name that is not a *)
(* defined stage returns False and leaves every record and the file as     *)
(* they were.                                                              *)
C9_UnknownStageRejected ==
    [][ ( /\ lastCall'.op \in { "start_stage", "complete_stage", "fail_stage" }
          /\ lastCall'.name \notin StageNames ) =>
            /\ lastCall'.ret = "False"
            /\ progress_data' = progress_data
            /\ metadata_file' = metadata_file ]_vars

(* C10: when the process is killed inside _save_progress, the file is the  *)
(* whole previous snapshot or the whole new one.                           *)
C10_SaveIsAtomic ==
    [][ lastCall'.save = "killed" =>
          \/ metadata_file' = metadata_file
          \/ /\ metadata_file'.kind = "doc"
             /\ metadata_file'.doc.last_updated = clock'
             /\ LoadTry(metadata_file') = "ok" ]_vars

EntryField(e, field, default) ==
    IF field \in DOMAIN e THEN e[field] ELSE default

(* the record loaded for entry e carries the entry's own values *)
LoadedAsStored(st, e) ==
    /\ st.status = e.status
    /\ st.checksum = EntryField(e, "checksum", NoChecksum)
    /\ st.start_time = EntryField(e, "start_time", NoTime)
    /\ st.end_time = EntryField(e, "end_time", NoTime)
    /\ st.error_message = EntryField(e, "error_message", None)
    /\ st.details = EntryField(e, "details", NoDetails)

(* C12: the configuration checksum is advisory only.  A tracker built on a *)
(* progress file holds, for every entry of the file, the status, times,    *)
(* error_message, details and checksum stored there, whatever the checksum *)
(* of the configuration it is built with; and no operation changes a       *)
(* stored checksum or turns a stage back to pending other than             *)
(* reset_from_stage on the stages from its argument on.                    *)
C12_ChecksumAdvisoryOnly ==
    /\ [] ( ( /\ lastCall.op = "__init__"
               /\ lastCall.ret = "ok"
               /\ metadata_file.kind # "missing" ) =>
             \A n \in DOMAIN DocStages(metadata_file.doc) :
                 /\ n \in DOMAIN progress_data
                 /\ LoadedAsStored(progress_data[n], DocStages(metadata_file.doc)[n]) )
    /\ [][ lastCall'.op \in Transitions =>
             \A n \in (DOMAIN progress_data) \cap (DOMAIN progress_data') :
                 /\ progress_data'[n].checksum = progress_data[n].checksum
                 /\ ( /\ progress_data[n].status # "pending"
                      /\ progress_data'[n].status = "pending" ) =>
                        /\ lastCall'.op = "reset_from_stage"
                        /\ StageIndex(lastCall'.name) > 0
                        /\ StageIndex(n) >= StageIndex(lastCall'.name)
          ]_vars

(* a file written under another configuration has been loaded and its      *)
(* completed stage is still completed, with the checksum it was stored with *)
C12_Witness ==
    /\ lastCall.op = "__init__"
    /\ lastCall.ret = "ok"
    /\ metadata_file.kind = "doc"
    /\ "config_checksum" \in DOMAIN metadata_file.doc
    /\ metadata_file.doc.config_checksum # _calculate_config_checksum(config_data)
    /\ "validation" \in DOMAIN progress_data
    /\ progress_data["validation"].status = "completed"
    /\ progress_data["validation"].checksum # _calculate_config_checksum(config_data)

(* the dot path leads through mappings of root to a value that is not None *)
Resolvable(root, path) ==
    _get_nested_value(root, path).kind \notin { "KeyError", "NoneType" }

(* text with each reference that is resolvable in root replaced by the     *)
(* string form of its value, and every other token as it was; n tokens     *)
RECURSIVE Substituted(_, _, _)
Substituted(text, root, n) ==
    IF n = 0 THEN << >>
    ELSE Substituted(text, root, n - 1)
         \o (IF text[n].kind = "ref" /\ Resolvable(root, text[n].path)
             THEN str(_get_nested_value(root, text[n].path))
             ELSE << text[n] >>)

(* after is before with every string scalar, at any depth, substituted     *)
RECURSIVE PassReplaced(_, _, _)
PassReplaced(before, after, root) ==
    /\ after.kind = before.kind
    /\ IF before.kind \in { "dict", "list" }
       THEN /\ Len(after.val) = Len(before.val)
            /\ \A i \in 1..Len(before.val) :
                  IF before.kind = "dict"
                  THEN /\ after.val[i].key = before.val[i].key
                       /\ PassReplaced(before.val[i].value, after.val[i].value, root)
                  ELSE PassReplaced(before.val[i], after.val[i], root)
       ELSE IF before.kind = "str"
       THEN after.val = Substituted(before.val, root, Len(before.val))
       ELSE after = before

IsChain(config, n, final) == config = ChainTree(n, final)

(* C14: for an acyclic chain of at most 10 references, resolve_variables   *)
(* returns a tree in which every link of the chain equals the final value, *)
(* no string holds "${", and no warning was printed.                       *)
C14_ChainsResolveTransitively ==
    \A n \in 1..MaxChain, final \in ChainFinals :
        ( /\ rpc = "returned"
          /\ first_result = PyNone
          /\ n <= max_iterations
          /\ IsChain(self_config, n, final) ) =>
            /\ \A i \in 1..n :
                  DictGet(obj, ChainKeys[i]) = DictGet(obj, ChainKeys[n + 1])
            /\ ~_has_unresolved_variables(obj)
            /\ ~warned

(* C15: for every input tree, circular and self-referential ones included, *)
(* _resolve_variable_references returns after at most 10 passes; when "${" *)
(* is left after the 10th pass it returns the tree that still holds it and *)
(* prints the warning, and it prints the warning in no other case.         *)
C15_TerminatesWithinTenPasses ==
    /\ [] ( /\ iteration <= 10
            /\ rpc = "returned" =>
                  /\ warned <=> _has_unresolved_variables(obj)
                  /\ warned => iteration = 10
            /\ rpc # "returned" => ~warned )
    /\ (rpc = "constructed") ~> (rpc = "returned")

(* a self-referential configuration {"a": "x${a}", ...} came back after    *)
(* ten passes with the warning and the reference still in it               *)
C15_Witness ==
    /\ rpc = "returned"
    /\ warned
    /\ iteration = 10
    /\ HasKey(self_config, "a")
    /\ DictGet(self_config, "a") = PyStr(<< Lit("x"), Ref(<< "a" >>) >>)
    /\ contains_dollar_brace(DictGet(obj, "a").val)

(* the path has a missing segment or passes through a value that is no     *)
(* mapping                                                                 *)
Unresolvable(root, path) == _get_nested_value(root, path).kind = "KeyError"

UnresolvableToken(root, tok) == tok.kind = "ref" /\ Unresolvable(root, tok.path)

(* text without its unresolvable references *)
RECURSIVE StripText(_, _)
StripText(text, root) ==
    IF text = << >> THEN << >>
    ELSE (IF UnresolvableToken(root, Head(text)) THEN << >> ELSE << Head(text) >>)
         \o StripText(Tail(text), root)

(* the tree without the unresolvable references of its strings *)
RECURSIVE Strip(_, _)
Strip(o, root) ==
    IF o.kind = "dict"
    THEN PyDict([ i \in 1..Len(o.val) |-> Item(o.val[i].key, Strip(o.val[i].value, root)) ])
    ELSE IF o.kind = "list"
    THEN PyList([ i \in 1..Len(o.val) |-> Strip(o.val[i], root) ])
    ELSE IF o.kind = "str" THEN PyStr(StripText(o.val, root))
    ELSE o

(* every unresolvable reference written in a string of before stands in    *)
(* the string at the same place of after                                   *)
RECURSIVE KeepsUnresolvable(_, _, _)
KeepsUnresolvable(before, after, root) ==
    /\ after.kind = before.kind
    /\ IF before.kind \in { "dict", "list" }
       THEN /\ Len(after.val) = Len(before.val)
            /\ \A i \in 1..Len(before.val) :
                  IF before.kind = "dict"
                  THEN KeepsUnresolvable(before.val[i].value, after.val[i].value, root)
                  ELSE KeepsUnresolvable(before.val[i], after.val[i], root)
       ELSE before.kind = "str" =>
              \A i \in 1..Len(before.val) :
                  UnresolvableToken(root, before.val[i]) =>
                      \E j \in 1..Len(after.val) : after.val[j] = before.val[i]

(* C16: a ${path} whose path has a missing segment or passes through a     *)
(* value that is no mapping stands in the returned string as written and   *)
(* nothing is raised; everything else comes back as from the same tree     *)
(* without the unresolvable references.                                    *)
C16_UnresolvableLeftInPlace ==
    (rpc = "returned" /\ first_result = PyNone) =>
        /\ KeepsUnresolvable(self_config, obj, self_config)
        /\ Strip(obj, self_config) = resolved_config(Strip(self_config, self_config))

(* "${zz}/q${b}" with no key zz and b = "Z" came back as "${zz}/qZ" *)
C16_Witness ==
    /\ rpc = "returned"
    /\ first_result = PyNone
    /\ HasKey(self_config, "a")
    /\ DictGet(self_config, "a") =
          PyStr(<< Ref(<< "zz" >>), Lit("/q"), Ref(<< "b" >>) >>)
    /\ DictGet(obj, "a") = PyStr(<< Ref(<< "zz" >>), Lit("/q"), Lit("Z") >>)

(* part occurs in text as a run of consecutive tokens *)
Contains(text, part) ==
    \E j \in 1..(Len(text) - Len(part) + 1) :
        SubSeq(text, j, j + Len(part) - 1) = part

(* the reference leads to a string that begins with "~" *)
RefersToTildePath(root, tok) ==
    /\ tok.kind = "ref"
    /\ _get_nested_value(root, tok.path).kind = "str"
    /\ startswith_tilde(_get_nested_value(root, tok.path).val)

(* every string of before that refers to a "~" path holds, in after, the   *)
(* home-expanded form of that path                                         *)
RECURSIVE HoldsExpandedPaths(_, _, _)
HoldsExpandedPaths(before, after, root) ==
    /\ after.kind = before.kind
    /\ IF before.kind \in { "dict", "list" }
       THEN /\ Len(after.val) = Len(before.val)
            /\ \A i \in 1..Len(before.val) :
                  IF before.kind = "dict"
                  THEN HoldsExpandedPaths(before.val[i].value, after.val[i].value, root)
                  ELSE HoldsExpandedPaths(before.val[i], after.val[i], root)
       ELSE before.kind = "str" =>
              \A i \in 1..Len(before.val) :
                  RefersToTildePath(root, before.val[i]) =>
                      Contains(after.val,
                               expanduser(_get_nested_value(root, before.val[i].path).val))

(* C17: ~ is expanded before references are substituted, so a string that  *)
(* refers to a value beginning with "~" comes back holding the             *)
(* home-expanded form of that value; the example of the module docstring   *)
(* comes back with paths.repo equal to "<home>/Development/repo".          *)
C17_ExpandedPathIsReferenced ==
    (rpc = "returned" /\ first_result = PyNone) =>
        /\ HoldsExpandedPaths(self_config, obj, self_config)
        /\ self_config = DocstringExample =>
              DictGet(DictGet(obj, "paths"), "repo")
                = PyStr(<< Home, Lit("/Development"), Lit("/repo") >>)

(* C18: when the tree R returned by resolve_variables holds no "${", a     *)
(* resolver constructed on R returns a tree equal to R.                    *)
C18_ResolveIsIdempotent ==
    (rpc = "returned" /\ first_result # PyNone) => obj = first_result

(* C19: resolve_variables never changes its input: through every step of   *)
(* a call, self.config and all that is nested in it stay as they were      *)
(* given, while the result is built in another tree.                       *)
C19_InputNotMutated ==
    [][ (rpc = "constructed" \/ rpc = "loop") => self_config' = self_config ]_vars

(* the call has returned a tree that differs from the input both by an     *)
(* expanded ~ and by a substituted reference, and self.config is still the *)
(* input                                                                   *)
C19_Witness ==
    /\ rpc = "returned"
    /\ first_result = PyNone
    /\ self_config = DocstringExample
    /\ DictGet(obj, "base_paths") # DictGet(self_config, "base_paths")
    /\ DictGet(obj, "paths") # DictGet(self_config, "paths")

(* C20: after any successful construction, fresh or from a progress file   *)
(* that loads without error, and after any operations, failed stages and   *)
(* failed saves included, get_progress_summary() and                       *)
(* print_progress_report() return without raising.                         *)
C20_SummaryAndReportNeverRaise ==
    proc = "running" =>
        /\ get_progress_summary(progress_data).exc = "ok"
        /\ print_progress_report(progress_data).exc = "ok"

(* the mapping a details argument stands for: None adds nothing *)
Given(details) == IF details = NoDetails THEN EmptyDetails ELSE details

(* new is old with the keys of given added or overwritten, the rest kept *)
MergedInto(old, given, new) ==
    /\ DOMAIN new = (DOMAIN old) \cup (DOMAIN given)
    /\ \A k \in DOMAIN given : new[k] = given[k]
    /\ \A k \in (DOMAIN old) \ (DOMAIN given) : new[k] = old[k]

HasBothTimes(st) == st.start_time # NoTime /\ st.end_time # NoTime

(* the sum of end_time - start_time over the stages in names *)
RECURSIVE Elapsed(_, _)
Elapsed(pd, names) ==
    IF names = {} THEN 0
    ELSE LET n == CHOOSE x \in names : TRUE IN
         (pd[n].end_time - pd[n].start_time) + Elapsed(pd, names \ { n })

(* C22: get_progress_summary() reports, for completed, failed, in_progress *)
(* and pending, the number of stages with that status; a total_time_spent  *)
(* equal to the sum of end_time - start_time over every stage with both    *)
(* timestamps set, whatever its status; and the names of exactly the       *)
(* failed stages.                                                          *)
C22_SummaryCountsAndTime ==
    proc = "running" =>
        LET summary == get_progress_summary(progress_data) IN
        /\ summary.exc = "ok"
        /\ summary.completed = Cardinality(WithStatus(progress_data, "completed"))
        /\ summary.failed = Cardinality(WithStatus(progress_data, "failed"))
        /\ summary.in_progress = Cardinality(WithStatus(progress_data, "in_progress"))
        /\ summary.pending = Cardinality(WithStatus(progress_data, "pending"))
        /\ summary.total_time_spent =
              Elapsed(progress_data,
                      { n \in DOMAIN progress_data : HasBothTimes(progress_data[n]) })
        /\ summary.failed_stages = WithStatus(progress_data, "failed")

(* the ids of the stages in names *)
Ids(names) == { stage_definitions[d].id : d \in names }

Dependencies(n) ==
    { stage_definitions[n].dependencies[i] :
        i \in 1..Len(stage_definitions[n].dependencies) }

Listed(report, n) == { report.depends_on[n][i] : i \in 1..Len(report.depends_on[n]) }

C24_AtMostOneInProgress ==
    Cardinality(WithStatus(progress_data, "in_progress")) <= 1

TrackedSections == { "versions", "paths", "setup_options", "user" }

(* the section as a mapping from its keys to their values *)
AsMapping(section) ==
    [ k \in { section[i][1] : i \in 1..Len(section) } |->
        (CHOOSE item \in { section[i] : i \in 1..Len(section) } : item[1] = k)[2] ]

(* the two configurations agree on the four tracked sections *)
AgreeOnTracked(c1, c2) ==
    \A section \in TrackedSections :
        AsMapping(ConfigGet(c1, section)) = AsMapping(ConfigGet(c2, section))

(* C25: the checksum depends only on the sections versions, paths,         *)
(* setup_options and user: under a configuration that agrees with another  *)
(* on these four, whatever its key order and its other sections, the       *)
(* config_checksum written to the file and the checksum of freshly         *)
(* initialized stages are those of the other configuration.                *)
C25_ChecksumOfTrackedSections ==
    \A c \in Configs \cup { PriorConfig } :
        AgreeOnTracked(c, config_data) =>
            /\ lastCall.save = "written" =>
                  metadata_file.doc.config_checksum = _calculate_config_checksum(c)
            /\ ( /\ lastCall.op = "__init__"
                 /\ lastCall.ret = "ok"
                 /\ metadata_file.kind = "missing" ) =>
                  \A n \in DOMAIN progress_data :
                      progress_data[n].checksum = _calculate_config_checksum(c)

(* a tracker constructed afresh under the configuration with the other key *)
(* order and the extra section has written a file with the checksum of the *)
(* first configuration                                                     *)
C25_Witness ==
    /\ config_data # FirstConfig
    /\ lastCall.save = "written"
    /\ metadata_file.doc.config_checksum = _calculate_config_checksum(FirstConfig)
    /\ \E n \in DOMAIN progress_data :
          progress_data[n].checksum = _calculate_config_checksum(FirstConfig)

(* every dependency is a defined stage that comes before its dependant *)
DeclaredOrderIsTopological ==
    \A n \in StageNames :
        \A d \in Dependencies(n) :
            d \in StageNames /\ StageIndex(d) < StageIndex(n)

(* the completed stages of pd are the first ones of the declared order *)
CompletedIsPrefix(pd) ==
    \A n \in DOMAIN pd :
        pd[n].status = "completed" =>
            \A i \in 1..(StageIndex(n) - 1) :
                stages[i] \in DOMAIN pd /\ pd[stages[i]].status = "completed"

BecomesInProgress(n) ==
    /\ n \in DOMAIN progress_data'
    /\ progress_data'[n].status = "in_progress"
    /\ \/ n \notin DOMAIN progress_data
       \/ progress_data[n].status # "in_progress"
       \/ lastCall'.op = "start_stage" /\ lastCall'.name = n

(* C26: the declared order is a topological order of the dependency table, *)
(* and under a caller that starts only the stage get_resume_point()        *)
(* returns and ends its run at the first failure, the completed stages, in *)
(* memory and in the file, are always the first stages of the declared     *)
(* order, also after reset_from_stage, and a stage becomes in_progress     *)
(* only when all its declared dependencies are completed.                  *)
C26_ResumeOrderRespectsDependencies ==
    /\ [](DeclaredOrderIsTopological)
    /\ [](CompletedIsPrefix(progress_data))
    /\ [](metadata_file.kind = "doc" => CompletedIsPrefix(DocStages(metadata_file.doc)))
    /\ [][ \A n \in StageNames :
              BecomesInProgress(n) =>
                  \A d \in Dependencies(n) :
                      is_stage_completed(progress_data', d) ]_vars

(* after a reset from docker_setup the caller has started docker_setup     *)
(* again, with the seven stages before it completed                        *)
C26_Witness ==
    /\ lastCall.op = "start_stage"
    /\ lastCall.name = "docker_setup"
    /\ calls = 2
    /\ clock = PriorTime + 2
    /\ progress_data["docker_setup"].status = "in_progress"
    /\ is_stage_completed(progress_data, "prerequisites")
    /\ progress_data["git_github_setup"].status = "pending"

(* C27: whenever get_progress_summary returns, its next_stage is the stage *)
(* get_resume_point() returns, also when that stage is in_progress, and    *)
(* the two are None together.                                              *)
C27_NextStageIsResumePoint ==
    (proc = "running" /\ get_progress_summary(progress_data).exc = "ok") =>
        get_progress_summary(progress_data).next_stage = get_resume_point(progress_data)

(* C28: a stage whose status is completed, in_progress or pending carries  *)
(* no error_message, so that the report prints an error line only under a  *)
(* failed stage.                                                           *)
C28_ErrorMessageOnlyWhenFailed ==
    \A n \in DOMAIN progress_data :
        /\ progress_data[n].status # "failed" => progress_data[n].error_message = None
        /\ ( /\ proc = "running"
             /\ print_progress_report(progress_data).exc = "ok"
             /\ n \in StageNames
             /\ progress_data[n].status # "failed" ) =>
               print_progress_report(progress_data).error[n] = None

(* C29: for every stage, an end_time comes with a start_time that is not   *)
(* later, so that no duration is negative.                                 *)
C29_EndTimeAfterStartTime ==
    \A n \in DOMAIN progress_data :
        progress_data[n].end_time # NoTime =>
            /\ progress_data[n].start_time # NoTime
            /\ progress_data[n].start_time <= progress_data[n].end_time

(* no write is outstanding: a call has written the file at the last        *)
(* reading of the clock, which every call that saves advances, or there is *)
(* no file and no call has saved yet                                       *)
LastWriteWentThrough ==
    /\ metadata_file.kind = "doc"
    /\ "last_updated" \in DOMAIN metadata_file.doc
    /\ metadata_file.doc.last_updated = clock
    /\ clock > PriorTime

NothingWrittenYet == metadata_file.kind = "missing" /\ clock = PriorTime

(* C30: between two operations and with no failed write, the file agrees   *)
(* with memory: either there is no file and every stage in memory is       *)
(* pending without timestamps, or the stages of the file are the records   *)
(* in memory field for field, completed_stages is the number of completed  *)
(* stages and total_stages is 15.                                          *)
C30_FileAgreesWithMemory ==
    proc = "running" =>
        /\ NothingWrittenYet =>
              \A n \in DOMAIN progress_data :
                  /\ progress_data[n].status = "pending"
                  /\ progress_data[n].start_time = NoTime
                  /\ progress_data[n].end_time = NoTime
        /\ LastWriteWentThrough =>
              /\ DOMAIN DocStages(metadata_file.doc) = DOMAIN progress_data
              /\ \A n \in DOMAIN progress_data :
                    \A f \in StageFields :
                        DocStages(metadata_file.doc)[n][f] = progress_data[n][f]
              /\ metadata_file.doc.completed_stages =
                    Cardinality(WithStatus(progress_data, "completed"))
              /\ metadata_file.doc.total_stages = 15

====
